---------------------------- MODULE Spec2Model ----------------------------
(***************************************************************************)
(* RasterizedSource (rastervision/data/raster_source/rasterized_source.py): *)
(* a raster source that rasterizes the labelled geometries of a vector      *)
(* source on demand, one window at a time.                                  *)
(*                                                                          *)
(* Units.  A Box (window, extent) is in pixels.  Geometry coordinates are   *)
(* in half pixels, so that pixel p spans [2p, 2p+2] and has its centre at   *)
(* 2p+1: a Box corner is an even coordinate, a pixel centre an odd one.     *)
(* line_buffer is in quarter pixels (3 is 0.75 px, 5 is 1.25 px).           *)
(*                                                                          *)
(* A geometry is [type, parts, buf]:                                        *)
(*   Polygon, buf = 0  : parts = << <<lower corner, upper corner>> >>, an   *)
(*                       axis-aligned rectangle;                            *)
(*   Polygon, buf > 0  : the set of points within buf of the paths in      *)
(*                       parts (what LineString.buffer returns);            *)
(*   LineString        : parts = << path >>, a path of axis-aligned         *)
(*                       segments;                                          *)
(*   MultiLineString   : parts = several paths;                             *)
(*   Point             : parts = << <<p>> >>;                               *)
(*   Empty             : parts = << >>.                                     *)
(* A geometry of the index also carries valid (FALSE: the geometry library  *)
(* cannot clip it) and the class_id attribute _activate attaches.           *)
(***************************************************************************)
EXTENDS Integers, Sequences, FiniteSets, TLC

VARIABLES
    rasterizer_options, \* self.rasterizer_options: [line_buffer, background_class_id]
    extent,             \* self.extent: a Box
    activated,          \* self.activated
    str_tree,           \* self.str_tree: not set, None, or the index
    last,               \* the last call and what it returned or raised
    apc,                \* the _activate calls between their two assignments
    dpc,                \* the _deactivate calls between their two assignments
    rpc,                \* where a running _get_chip stands
    rwin,               \* the window of the running _get_chip
    overlap,            \* a _deactivate ran beside the running _get_chip
    raced,              \* since the index was last built, a _deactivate released it
                        \* between the two assignments of an _activate
    life                \* "New" until the first activate, then the last of
                        \* activate ("Activated") and deactivate ("Deactivated")

vars == <<rasterizer_options, extent, activated, str_tree, last, apc, dpc, rpc, rwin,
          overlap, raced, life>>

source == <<rasterizer_options, extent, activated, str_tree>>

(***************************************************************************)
(* Bounds of the model.                                                     *)
(***************************************************************************)
\* Boxes and geometries lie in the pixel square [0, WorldMax] x [0, WorldMax].
WorldMax == 5
\* A window is a square of 1..MaxChip pixels a side.
MaxChip == 2
\* The vector source holds at most MaxShapes labelled geometries.
MaxShapes == 2
\* At most MaxCalls calls of _activate, and as many of _deactivate, are between
\* their two assignments at a time.
MaxCalls == 2

Min(a, b) == IF a <= b THEN a ELSE b
Max(a, b) == IF a >= b THEN a ELSE b

(***************************************************************************)
(* Box (rastervision.core.Box).                                             *)
(***************************************************************************)
Box(ymin, xmin, ymax, xmax) ==
    [ymin |-> ymin, xmin |-> xmin, ymax |-> ymax, xmax |-> xmax]

get_height(b) == b.ymax - b.ymin

get_width(b) == b.xmax - b.xmin

Geom(type, parts, buf) == [type |-> type, parts |-> parts, buf |-> buf]

EmptyGeom == Geom("Empty", <<>>, 0)

\* The rectangle with corners (x0, y0) and (x1, y1), in half pixels.
Rect(x0, y0, x1, y1) == Geom("Polygon", << << <<x0, y0>>, <<x1, y1>> >> >>, 0)

\* Box.to_shapely: the Box as a polygon.
to_shapely(b) == Rect(2 * b.xmin, 2 * b.ymin, 2 * b.xmax, 2 * b.ymax)

\* int(): truncation toward zero of n / d, d > 0.
IntTrunc(n, d) == IF n >= 0 THEN n \div d ELSE -((-n) \div d)

(***************************************************************************)
(* shapely: bounds, intersection, buffer, transform.                        *)
(***************************************************************************)
Points(g) == UNION {{g.parts[i][j] : j \in DOMAIN g.parts[i]} : i \in DOMAIN g.parts}

SetMin(S) == CHOOSE m \in S : \A n \in S : m <= n
SetMax(S) == CHOOSE m \in S : \A n \in S : m >= n

\* geometry.bounds: (minx, miny, maxx, maxy) of a non-empty geometry.
Bounds(g) ==
    LET xs == {p[1] : p \in Points(g)}
        ys == {p[2] : p \in Points(g)}
    IN  <<SetMin(xs), SetMin(ys), SetMax(xs), SetMax(ys)>>

\* Box.from_shapely followed by Box.to_int: the bounds, in pixels, truncated.
from_shapely_to_int(g) ==
    LET b == Bounds(g)
    IN  Box(IntTrunc(b[2], 2), IntTrunc(b[1], 2), IntTrunc(b[4], 2), IntTrunc(b[3], 2))

\* Two closed bounding boxes share a point.
BoundsMeet(a, b) ==
    a[1] <= b[3] /\ b[1] <= a[3] /\ a[2] <= b[4] /\ b[2] <= a[4]

Clamp(v, lo, hi) == Max(lo, Min(v, hi))

ClampPt(p, wb) == <<Clamp(p[1], wb[1], wb[3]), Clamp(p[2], wb[2], wb[4])>>

\* The axis-aligned segment from a to b meets the closed rectangle wb.
SegHits(a, b, wb) ==
    BoundsMeet(<<Min(a[1], b[1]), Min(a[2], b[2]), Max(a[1], b[1]), Max(a[2], b[2])>>, wb)

\* The pieces of the path pts inside the closed rectangle wb, in path order.
\* A piece goes on through a vertex that lies inside the rectangle.
RECURSIVE ClipPath(_, _, _, _)
ClipPath(pts, wb, i, acc) ==
    IF i >= Len(pts) THEN acc
    ELSE LET a  == pts[i]
             b  == pts[i + 1]
             a2 == ClampPt(a, wb)
             b2 == ClampPt(b, wb)
             n  == Len(acc)
         IN  IF ~SegHits(a, b, wb) THEN ClipPath(pts, wb, i + 1, acc)
             ELSE IF n > 0 /\ a2 = a /\ acc[n][Len(acc[n])] = a
                  THEN ClipPath(pts, wb, i + 1, [acc EXCEPT ![n] = Append(@, b2)])
                  ELSE ClipPath(pts, wb, i + 1, Append(acc, <<a2, b2>>))

\* rectangle /\ rectangle: a polygon, or the edge or corner they share.
RectIntersection(s, w) ==
    LET sb == Bounds(s)
        wb == Bounds(w)
        x0 == Max(sb[1], wb[1])
        y0 == Max(sb[2], wb[2])
        x1 == Min(sb[3], wb[3])
        y1 == Min(sb[4], wb[4])
    IN  IF x0 > x1 \/ y0 > y1 THEN EmptyGeom
        ELSE IF x0 < x1 /\ y0 < y1 THEN Rect(x0, y0, x1, y1)
        ELSE IF x0 = x1 /\ y0 = y1 THEN Geom("Point", << << <<x0, y0>> >> >>, 0)
        ELSE Geom("LineString", << << <<x0, y0>>, <<x1, y1>> >> >>, 0)

\* line /\ rectangle: the pieces of the line inside the rectangle.
LineIntersection(s, w) ==
    LET pieces == ClipPath(s.parts[1], Bounds(w), 1, <<>>)
    IN  IF Len(pieces) = 0 THEN EmptyGeom
        ELSE IF Len(pieces) = 1 THEN Geom("LineString", pieces, 0)
        ELSE Geom("MultiLineString", pieces, 0)

TopologicalError == Geom("TopologicalError", <<>>, 0)

\* Intersection that drops a geometry it cannot clip instead of raising.
IntersectionSkips(s, w) ==
    IF ~s.valid THEN EmptyGeom
    ELSE IF s.type = "Polygon" THEN RectIntersection(s, w)
    ELSE LineIntersection(s, w)

\* s.intersection(w), w a rectangle.  The result carries no class_id.  A
\* geometry the library cannot clip raises.
Intersection(s, w) ==
    IF ~s.valid THEN TopologicalError
    ELSE IF s.type = "Polygon" THEN RectIntersection(s, w)
    ELSE LineIntersection(s, w)

is_empty(g) == g.type = "Empty"

\* s.buffer(d) of a line: the polygon of the points within d of it.
buffer(s, d) == Geom("Polygon", s.parts, d)

\* to_window_frame with the window's corner coordinates exchanged.
to_window_frame_swapped(window, p) == <<p[1] - 2 * window.ymin, p[2] - 2 * window.xmin>>

to_window_frame(window, p) == <<p[1] - 2 * window.xmin, p[2] - 2 * window.ymin>>

\* shapely.ops.transform(to_window_frame, s): to_window_frame applied to every
\* coordinate of s.
transform(window, s) ==
    [s EXCEPT !.parts = [i \in DOMAIN s.parts |->
                            [j \in DOMAIN s.parts[i] |->
                                to_window_frame(window, s.parts[i][j])]]]

(***************************************************************************)
(* rasterio.features.rasterize (all_touched = False), on a grid of          *)
(* out_shape = <<height, width>>; pixel (r, c) has its centre at            *)
(* (2c+1, 2r+1) in the window frame.                                        *)
(***************************************************************************)
\* Squared distance, in half pixels, from p to the axis-aligned segment a-b.
SegDist2(p, a, b) ==
    LET dx == p[1] - Clamp(p[1], Min(a[1], b[1]), Max(a[1], b[1]))
        dy == p[2] - Clamp(p[2], Min(a[2], b[2]), Max(a[2], b[2]))
    IN  dx * dx + dy * dy

\* The segments of a geometry's paths: <<part, index of the first vertex>>.
Segments(g) ==
    UNION {{<<i, j>> : j \in 1..(Len(g.parts[i]) - 1)} : i \in DOMAIN g.parts}

\* A filled polygon burns the pixels whose centre it holds.  The centre is
\* within buf / 4 pixels of a path iff 4 * (distance in half pixels)^2 < buf^2.
BurnsPolygon(g, r, c) ==
    LET p == <<2 * c + 1, 2 * r + 1>>
    IN  IF g.buf = 0
        THEN LET lo == g.parts[1][1]
                 hi == g.parts[1][2]
             IN  lo[1] < p[1] /\ p[1] < hi[1] /\ lo[2] < p[2] /\ p[2] < hi[2]
        ELSE \E sg \in Segments(g) :
                4 * SegDist2(p, g.parts[sg[1]][sg[2]], g.parts[sg[1]][sg[2] + 1])
                    < g.buf * g.buf

\* A line that is not a polygon burns the pixels its segments run through
\* (the pixel floor(x), floor(y) of each point of an axis-aligned segment).
BurnsLine(g, r, c) ==
    \E sg \in Segments(g) :
        LET a == g.parts[sg[1]][sg[2]]
            b == g.parts[sg[1]][sg[2] + 1]
        IN  /\ Min(a[1], b[1]) \div 2 <= c /\ c <= Max(a[1], b[1]) \div 2
            /\ Min(a[2], b[2]) \div 2 <= r /\ r <= Max(a[2], b[2]) \div 2

\* A point burns the pixel floor(x), floor(y).
BurnsPoint(g, r, c) ==
    \E p \in Points(g) : p[1] \div 2 = c /\ p[2] \div 2 = r

Burns(g, r, c) ==
    CASE g.type = "Polygon" -> BurnsPolygon(g, r, c)
      [] g.type \in {"LineString", "MultiLineString"} -> BurnsLine(g, r, c)
      [] g.type = "Point" -> BurnsPoint(g, r, c)
      [] OTHER -> FALSE

\* rasterize that lets the first shape over a pixel win.
rasterize_first_wins(shapes, out_shape, fill) ==
    [data |-> [r \in 0..(out_shape[1] - 1) |-> [c \in 0..(out_shape[2] - 1) |->
                  LET hits == {i \in DOMAIN shapes : Burns(shapes[i].s, r, c)}
                  IN  IF hits = {} THEN fill ELSE shapes[SetMin(hits)].c]],
     dtype |-> "uint8"]

\* Shapes are painted in list order, a later one over an earlier one.
rasterize(shapes, out_shape, fill) ==
    [data |-> [r \in 0..(out_shape[1] - 1) |-> [c \in 0..(out_shape[2] - 1) |->
                  LET hits == {i \in DOMAIN shapes : Burns(shapes[i].s, r, c)}
                  IN  IF hits = {} THEN fill ELSE shapes[SetMax(hits)].c]],
     dtype |-> "uint8"]

\* np.full(out_shape, value, dtype=np.uint8)
np_full(out_shape, value) ==
    [data |-> [r \in 0..(out_shape[1] - 1) |-> [c \in 0..(out_shape[2] - 1) |-> value]],
     dtype |-> "uint8"]

\* np.zeros(out_shape): float64 unless a dtype is given.
np_zeros(out_shape) ==
    [data |-> [r \in 0..(out_shape[1] - 1) |-> [c \in 0..(out_shape[2] - 1) |-> 0]],
     dtype |-> "float64"]

(***************************************************************************)
(* geojson_to_raster.                                                       *)
(***************************************************************************)
\* STRtree.query(w): the geometries whose bounding box meets that of w, in
\* the order the tree packed them in when it was built.
query(tree, w) == SelectSeq(tree, LAMBDA s : BoundsMeet(Bounds(s), Bounds(w)))

\* shapes = [(s, s.class_id) for s in str_tree.query(window.to_shapely())]
Candidates(tree, window) ==
    LET shapes == query(tree, to_shapely(window))
    IN  [i \in DOMAIN shapes |-> [s |-> shapes[i], c |-> shapes[i].class_id]]

\* shapes = [(s.intersection(window.to_shapely()), c) for s, c in shapes]
Cropped(tree, window) ==
    LET shapes == Candidates(tree, window)
    IN  [i \in DOMAIN shapes |->
            [s |-> Intersection(shapes[i].s, to_shapely(window)), c |-> shapes[i].c]]

\* shapes = [(s, c) for s, c in shapes if not s.is_empty]
NonEmpty(shapes) == SelectSeq(shapes, LAMBDA x : ~is_empty(x.s))

\* shapes = [(s.buffer(line_buffer), c) if type(s) is LineString else (s, c) ...]
Buffered(shapes, line_buffer) ==
    [i \in DOMAIN shapes |->
        IF shapes[i].s.type = "LineString"
        THEN [s |-> buffer(shapes[i].s, line_buffer), c |-> shapes[i].c]
        ELSE shapes[i]]

\* shapes = [(shapely.ops.transform(to_window_frame, s), c) for s, c in shapes]
Reframed(shapes, window) ==
    [i \in DOMAIN shapes |->
        [s |-> transform(window, shapes[i].s),
         c |-> shapes[i].c]]

\* The shapes handed to burn-in: cropped to the window, without the empty
\* ones, lines buffered, in the window frame.
WindowShapes(tree, options, window) ==
    Reframed(Buffered(NonEmpty(Cropped(tree, window)), options.line_buffer), window)

\* The intersection of some candidate raises.
CropRaises(tree, window) ==
    \E i \in DOMAIN Cropped(tree, window) :
        Cropped(tree, window)[i].s.type = "TopologicalError"

\* Burn-in: rasterize the shapes over the background, or fill with the
\* background when there is no shape.
Burned(tree, options, window) ==
    LET shapes    == WindowShapes(tree, options, window)
        out_shape == <<get_height(window), get_width(window)>>
    IN  IF Len(shapes) > 0
        THEN rasterize(shapes, out_shape, options.background_class_id)
        ELSE np_full(out_shape, options.background_class_id)

\* ExtentMask without the branch for a window outside the extent.
ExtentMaskNoClear(raster, window, ext) ==
    LET valid_window == RectIntersection(to_shapely(window), to_shapely(ext))
        out_shape    == <<get_height(window), get_width(window)>>
    IN  IF is_empty(valid_window)
        THEN raster
        ELSE LET vw == from_shapely_to_int(
                           transform(window, valid_window))
                 new_raster == np_zeros(out_shape)
             IN  [new_raster EXCEPT !.data =
                     [r \in DOMAIN new_raster.data |-> [c \in DOMAIN new_raster.data[r] |->
                         IF vw.ymin <= r /\ r < vw.ymax /\ vw.xmin <= c /\ c < vw.xmax
                         THEN raster.data[r][c]
                         ELSE new_raster.data[r][c]]]]

\* ExtentMask with the rows and the columns of the copied region exchanged.
ExtentMaskSwapped(raster, window, ext) ==
    LET valid_window == RectIntersection(to_shapely(window), to_shapely(ext))
        out_shape    == <<get_height(window), get_width(window)>>
    IN  IF is_empty(valid_window)
        THEN [raster EXCEPT !.data = [r \in DOMAIN raster.data |->
                                         [c \in DOMAIN raster.data[r] |-> 0]]]
        ELSE LET vw == from_shapely_to_int(
                           transform(window, valid_window))
                 new_raster == np_zeros(out_shape)
             IN  [new_raster EXCEPT !.data =
                     [r \in DOMAIN new_raster.data |-> [c \in DOMAIN new_raster.data[r] |->
                         IF vw.xmin <= r /\ r < vw.xmax /\ vw.ymin <= c /\ c < vw.ymax
                         THEN raster.data[r][c]
                         ELSE new_raster.data[r][c]]]]

\* Pixels of the window outside the extent are set to zero.
ExtentMask(raster, window, ext) ==
    LET valid_window == RectIntersection(to_shapely(window), to_shapely(ext))
        out_shape    == <<get_height(window), get_width(window)>>
    IN  IF is_empty(valid_window)
        THEN [raster EXCEPT !.data = [r \in DOMAIN raster.data |->
                                         [c \in DOMAIN raster.data[r] |-> 0]]]
        ELSE LET vw == from_shapely_to_int(
                           transform(window, valid_window))
                 new_raster == np_zeros(out_shape)
             IN  [new_raster EXCEPT !.data =
                     [r \in DOMAIN new_raster.data |-> [c \in DOMAIN new_raster.data[r] |->
                         IF vw.ymin <= r /\ r < vw.ymax /\ vw.xmin <= c /\ c < vw.xmax
                         THEN raster.data[r][c]
                         ELSE new_raster.data[r][c]]]]

NoData == <<>>

\* [kind, data, dtype]: the raster, or the exception that leaves the function.
geojson_to_raster(tree, options, window, ext) ==
    IF CropRaises(tree, window)
    THEN [kind |-> "TopologicalError", data |-> NoData, dtype |-> "none"]
    ELSE LET raster == ExtentMask(Burned(tree, options, window), window, ext)
         IN  [kind |-> "chip", data |-> raster.data, dtype |-> raster.dtype]

(***************************************************************************)
(* RasterizedSource.                                                        *)
(***************************************************************************)
get_dtype == "uint8"

\* np.expand_dims(chip, 2): every pixel becomes a one-channel vector.
expand_dims(data) ==
    [r \in DOMAIN data |-> [c \in DOMAIN data[r] |-> <<data[r][c]>>]]

NoTree   == [state |-> "unset", items |-> <<>>]
NoneTree == [state |-> "None", items |-> <<>>]

\* The orders an index built from the sequence s may hold its geometries in:
\* the library leaves the order open, and it is not the order of s (the tree
\* packs the geometries by their place), so it is any order of s.
Orders(s) ==
    {[i \in DOMAIN s |-> s[p[i]]] :
        p \in {f \in [DOMAIN s -> DOMAIN s] : \A i, j \in DOMAIN s : i # j => f[i] # f[j]}}

\* The index that holds, and yields, its geometries in the order packed.
STRtree(packed) == [state |-> "STRtree", items |-> packed]

NoWindow == Box(0, 0, 0, 0)

Result(op, kind, window, data, dtype) ==
    [op |-> op, kind |-> kind, window |-> window, data |-> data, dtype |-> dtype]

\* What _get_chip(window) returns or raises when it reads activated as act
\* and the index as tree.
ChipResult(act, tree, options, window, ext) ==
    IF ~act
    THEN Result("get_chip", "ActivationError", window, NoData, "none")
    ELSE IF tree.state # "STRtree"
    THEN Result("get_chip", "AttributeError", window, NoData, "none")
    ELSE LET chip == geojson_to_raster(tree.items, options, window, ext)
         IN  IF chip.kind = "chip"
             THEN Result("get_chip", "chip", window, expand_dims(chip.data), chip.dtype)
             ELSE Result("get_chip", chip.kind, window, NoData, "none")

\* shape.class_id = class_id, for the shapes of the vector source.
Labelled(shapes) ==
    [i \in DOMAIN shapes |->
        [type |-> shapes[i].shape.type, parts |-> shapes[i].shape.parts,
         buf |-> shapes[i].shape.buf, valid |-> shapes[i].shape.valid,
         class_id |-> shapes[i].class_id]]

(***************************************************************************)
(* Inputs: the geometries the vector source may hold, the windows asked     *)
(* for, the options and the extent the source is built with.                *)
(***************************************************************************)
Shape(type, parts, valid) == [type |-> type, parts |-> parts, buf |-> 0, valid |-> valid]

\* The square polygon of MaxChip pixels a side with its lower corner at (a, a).
Square(a) ==
    Shape("Polygon", << << <<2 * a, 2 * a>>, <<2 * (a + MaxChip), 2 * (a + MaxChip)>> >> >>, TRUE)

\* The line through the pixel centres of row r, from the first column to the last.
\* Row WorldMax - 2 is the first row past the extent.
HLine(r) ==
    Shape("LineString", << << <<1, 2 * r + 1>>, <<2 * WorldMax - 1, 2 * r + 1>> >> >>, TRUE)

\* A line down column 0 from row 0 to row 2, along row 2 to column 1, back up
\* column 1 to row 0 and along row 0 to column 3.
HookLine ==
    Shape("LineString", << << <<1, 1>>, <<1, 5>>, <<3, 5>>, <<3, 1>>, <<7, 1>> >> >>, TRUE)

\* A polygon over [1, 3] x [1, 3] that the geometry library cannot clip.
BadPolygon ==
    Shape("Polygon", << << <<2, 2>>, <<6, 6>> >> >>, FALSE)

Feature(shape, class_id) == [shape |-> shape, class_id |-> class_id]

Features ==
    {Feature(Square(0), 1), Feature(Square(1), 2), Feature(HLine(WorldMax - 2), 3),
     Feature(HookLine, 4), Feature(BadPolygon, 5)}

\* What vector_source.get_geojson() may hold: up to MaxShapes features,
\* listed by class id (the index keeps no trace of the order of the list).
VectorSources ==
    UNION {{s \in [1..n -> Features] : \A i, j \in 1..n : i < j => s[i].class_id < s[j].class_id}
              : n \in 0..MaxShapes}

Windows ==
    {Box(y, x, y + n, x + n) : <<y, x, n>> \in
        {<<y, x, n>> \in (0..WorldMax) \X (0..WorldMax) \X (1..MaxChip) :
            y + n <= WorldMax /\ x + n <= WorldMax}}

Options ==
    {[line_buffer |-> 3, background_class_id |-> 0],
     [line_buffer |-> 5, background_class_id |-> 6]}

Extents == {Box(1, 1, WorldMax - 2, WorldMax - 2)}

(***************************************************************************)
(* The source after __init__, and its operations.                           *)
(***************************************************************************)
Init ==
    /\ rasterizer_options \in Options
    /\ extent \in Extents
    /\ activated = FALSE
    /\ str_tree = NoTree
    /\ last = Result("init", "none", NoWindow, NoData, "none")
    /\ apc = 0
    /\ dpc = 0
    /\ rpc = "idle"
    /\ rwin = NoWindow
    /\ overlap = FALSE
    /\ raced = FALSE
    /\ life = "New"

\* _activate, whole.
Activate(shapes) ==
    /\ apc = 0 /\ dpc = 0 /\ rpc = "idle"
    /\ \E packed \in Orders(Labelled(shapes)) : str_tree' = STRtree(packed)
    /\ activated' = TRUE
    /\ last' = Result("activate", "none", NoWindow, NoData, "none")
    /\ life' = "Activated"
    /\ UNCHANGED <<rasterizer_options, extent, apc, dpc, rpc, rwin, overlap, raced>>

\* _deactivate that releases the index and leaves the flag set.
DeactivateKeepsFlag ==
    /\ apc = 0 /\ dpc = 0 /\ rpc = "idle"
    /\ str_tree' = NoneTree
    /\ last' = Result("deactivate", "none", NoWindow, NoData, "none")
    /\ life' = IF life = "New" THEN "New" ELSE "Deactivated"
    /\ UNCHANGED <<rasterizer_options, extent, activated, apc, dpc, rpc, rwin, overlap, raced>>

\* _deactivate, whole.
Deactivate ==
    /\ apc = 0 /\ dpc = 0 /\ rpc = "idle"
    /\ str_tree' = NoneTree
    /\ activated' = FALSE
    /\ last' = Result("deactivate", "none", NoWindow, NoData, "none")
    /\ life' = IF life = "New" THEN "New" ELSE "Deactivated"
    /\ UNCHANGED <<rasterizer_options, extent, apc, dpc, rpc, rwin, overlap, raced>>

\* get_chip that releases the index when it has read it, as a call wrapped in
\* the source's activation context would.
GetChipReleases(window) ==
    /\ apc = 0 /\ dpc = 0 /\ rpc = "idle"
    /\ last' = ChipResult(activated, str_tree, rasterizer_options, window, extent)
    /\ str_tree' = IF activated THEN NoneTree ELSE str_tree
    /\ activated' = FALSE
    /\ UNCHANGED <<rasterizer_options, extent, apc, dpc, rpc, rwin, overlap, raced, life>>

\* _get_chip(window), whole.
GetChip(window) ==
    /\ apc = 0 /\ dpc = 0 /\ rpc = "idle"
    /\ last' = ChipResult(activated, str_tree, rasterizer_options, window, extent)
    /\ UNCHANGED <<rasterizer_options, extent, activated, str_tree, apc, dpc, rpc, rwin,
                   overlap, raced, life>>

Next ==
    \/ \E shapes \in VectorSources : Activate(shapes)
    \/ Deactivate
    \/ \E window \in Windows : GetChip(window)

Spec == Init /\ [][Next]_vars

(***************************************************************************)
(* The same operations statement by statement: calls of _activate, of       *)
(* _deactivate and of _get_chip run beside one another with no lock, each   *)
(* statement a step.  A call of _activate or _deactivate that stands        *)
(* between its two assignments keeps nothing of its own (its second         *)
(* assignment is a constant), so the calls that stand there are counted.    *)
(* One _get_chip call stands between its check and its read at a time: it   *)
(* writes nothing that another call reads.                                  *)
(***************************************************************************)
\* _activate with its two assignments exchanged: the flag is set first.
ActivateFlagFirst(shapes) ==
    /\ apc < MaxCalls
    /\ activated' = TRUE
    /\ apc' = apc + 1
    /\ UNCHANGED <<rasterizer_options, extent, str_tree, last, dpc, rpc, rwin, overlap,
                   raced, life>>

\* self.str_tree = STRtree(...)
ActivateTree(shapes) ==
    /\ apc < MaxCalls
    /\ \E packed \in Orders(Labelled(shapes)) : str_tree' = STRtree(packed)
    /\ apc' = apc + 1
    /\ raced' = FALSE
    /\ UNCHANGED <<rasterizer_options, extent, activated, last, dpc, rpc, rwin, overlap, life>>

\* self.activated = True
ActivateFlag ==
    /\ apc > 0
    /\ activated' = TRUE
    /\ apc' = apc - 1
    /\ life' = "Activated"
    /\ UNCHANGED <<rasterizer_options, extent, str_tree, last, dpc, rpc, rwin, overlap, raced>>

\* self.str_tree = None
DeactivateTree ==
    /\ dpc < MaxCalls
    /\ str_tree' = NoneTree
    /\ dpc' = dpc + 1
    /\ overlap' = (overlap \/ rpc = "checked")
    /\ raced' = (raced \/ apc > 0)
    /\ UNCHANGED <<rasterizer_options, extent, activated, last, apc, rpc, rwin, life>>

\* self.activated = False
DeactivateFlag ==
    /\ dpc > 0
    /\ activated' = FALSE
    /\ dpc' = dpc - 1
    /\ life' = IF life = "New" THEN "New" ELSE "Deactivated"
    /\ UNCHANGED <<rasterizer_options, extent, str_tree, last, apc, rpc, rwin, overlap, raced>>

\* if not self.activated: raise ActivationError
ChipCheck(window) ==
    /\ rpc = "idle"
    /\ IF activated
       THEN /\ rpc' = "checked"
            /\ rwin' = window
            /\ overlap' = (dpc > 0)
            /\ UNCHANGED last
       ELSE /\ last' = ChipResult(FALSE, str_tree, rasterizer_options, window, extent)
            /\ UNCHANGED <<rpc, rwin, overlap>>
    /\ UNCHANGED <<rasterizer_options, extent, activated, str_tree, apc, dpc, raced, life>>

\* chip = geojson_to_raster(self.str_tree, ...); return np.expand_dims(chip, 2)
ChipRead ==
    /\ rpc = "checked"
    /\ last' = ChipResult(TRUE, str_tree, rasterizer_options, rwin, extent)
    /\ rpc' = "idle"
    /\ rwin' = NoWindow
    /\ UNCHANGED <<rasterizer_options, extent, activated, str_tree, apc, dpc, overlap, raced,
                   life>>

\* The interleaving needs no large input: one feature at most, full-size windows.
StepSources == {s \in VectorSources : Len(s) <= 1}

StepWindows == {w \in Windows : get_width(w) = MaxChip /\ w.xmin = w.ymin}

NextSteps ==
    \/ \E shapes \in StepSources : ActivateTree(shapes)
    \/ ActivateFlag
    \/ DeactivateTree
    \/ DeactivateFlag
    \/ \E window \in StepWindows : ChipCheck(window)
    \/ ChipRead

SpecSteps == Init /\ [][NextSteps]_vars

(***************************************************************************)
(* What the claims speak of, stated in world coordinates and apart from     *)
(* the rasterizer's own steps.                                              *)
(***************************************************************************)
IsChip == last.op = "get_chip" /\ last.kind = "chip"

\* The pixels (r, c) of the last chip's grid.
Pixels == (0..(get_height(last.window) - 1)) \X (0..(get_width(last.window) - 1))

Value(px) == last.data[px[1]][px[2]][1]

\* Pixel px of window w, as a pixel of the world.
WorldPixel(w, px) == <<w.ymin + px[1], w.xmin + px[2]>>

\* The world pixel (R, C) lies in the box b.
PixelIn(b, wp) ==
    b.ymin <= wp[1] /\ wp[1] < b.ymax /\ b.xmin <= wp[2] /\ wp[2] < b.xmax

\* The boxes share no point.
Disjoint(a, b) ==
    a.xmax < b.xmin \/ b.xmax < a.xmin \/ a.ymax < b.ymin \/ b.ymax < a.ymin

\* Box a lies inside box b.
Inside(a, b) ==
    b.xmin <= a.xmin /\ a.xmax <= b.xmax /\ b.ymin <= a.ymin /\ a.ymax <= b.ymax

\* The boxes share an area.
Overlap(a, b) ==
    a.xmin < b.xmax /\ b.xmin < a.xmax /\ a.ymin < b.ymax /\ b.ymin < a.ymax

\* The window w clipped to the box b (they overlap).
ClipBox(w, b) ==
    Box(Max(w.ymin, b.ymin), Max(w.xmin, b.xmin), Min(w.ymax, b.ymax), Min(w.xmax, b.xmax))

\* The index geometry g is a polygon the library can clip, and the centre of
\* the world pixel wp lies in it.
PolygonCovers(g, wp) ==
    /\ g.valid /\ g.type = "Polygon"
    /\ g.parts[1][1][1] < 2 * wp[2] + 1 /\ 2 * wp[2] + 1 < g.parts[1][2][1]
    /\ g.parts[1][1][2] < 2 * wp[1] + 1 /\ 2 * wp[1] + 1 < g.parts[1][2][2]

\* The shape burn-in is handed for the index geometry g and the window w, in
\* world coordinates: g clipped to w, buffered when that is a LineString.
WorldShape(g, w, line_buffer) ==
    LET s == Intersection(g, to_shapely(w))
    IN  IF s.type = "LineString" THEN buffer(s, line_buffer) ELSE s

\* That shape paints the world pixel wp (a pixel of w).
Paints(g, w, line_buffer, wp) == Burns(WorldShape(g, w, line_buffer), wp[1], wp[2])

Items == str_tree.items

\* An index geometry the library cannot clip is a candidate for the window w.
BadCandidate(w) ==
    \E i \in DOMAIN Items :
        ~Items[i].valid /\ BoundsMeet(Bounds(Items[i]), Bounds(to_shapely(w)))

(***************************************************************************)
(* The claims.                                                              *)
(***************************************************************************)
\* C1: a get_chip call on a Deactivated source (initially, and after every
\* deactivate) raises ActivationError and changes nothing of the source; on
\* an Activated source it does not raise ActivationError, and it returns a
\* chip whenever every candidate geometry can be clipped.
C1_ActivationError ==
    [][last'.op = "get_chip" =>
          IF life # "Activated"
          THEN last'.kind = "ActivationError" /\ source' = source
          ELSE /\ last'.kind # "ActivationError"
               /\ ~BadCandidate(last'.window) => last'.kind = "chip"]_vars

\* A get_chip refused after a deactivate that an activate came before.
C1_Witness ==
    /\ last.op = "get_chip" /\ last.kind = "ActivationError"
    /\ life = "Deactivated" /\ str_tree = NoneTree

\* C2: the chip of a window that shares no point with the extent is zero
\* everywhere.
C2_OutsideExtentZero ==
    (IsChip /\ Disjoint(last.window, extent)) => \A px \in Pixels : Value(px) = 0

\* A chip of a window outside the extent, with a background other than zero
\* and a geometry that paints a pixel of the window.
C2_Witness ==
    /\ IsChip /\ Disjoint(last.window, extent)
    /\ rasterizer_options.background_class_id # 0
    /\ \E i \in DOMAIN Items : \E px \in Pixels :
          Paints(Items[i], last.window, rasterizer_options.line_buffer,
                 WorldPixel(last.window, px))

\* The window of the last chip straddles the extent's boundary.
Straddles == Overlap(last.window, extent) /\ ~Inside(last.window, extent)

\* Every candidate of window w meets it in a polygon or not at all.
PolygonsOnly(w) ==
    \A i \in DOMAIN Cropped(Items, w) : Cropped(Items, w)[i].s.type \in {"Polygon", "Empty"}

\* Pixel px of the last chip is zero outside the extent, and inside it holds
\* what burn-in gives for the window clipped to the extent.
AsClippedWindow(px) ==
    LET w  == last.window
        cw == ClipBox(w, extent)
        wp == WorldPixel(w, px)
    IN  IF PixelIn(extent, wp)
        THEN Value(px) = Burned(Items, rasterizer_options, cw).data[wp[1] - cw.ymin][wp[2] - cw.xmin]
        ELSE Value(px) = 0

\* C3, as claimed: for a window straddling the extent, the pixels outside the
\* extent are zero and the pixels inside hold what burn-in gives for the same
\* geometries and the window clipped to the extent, whatever the geometries.
C3_AsClaimed ==
    (IsChip /\ Straddles) => \A px \in Pixels : AsClippedWindow(px)

\* C3, amended: the same, when every candidate geometry meets the window, and
\* the window clipped to the extent, in a polygon or not at all.
C3_PartialExtent ==
    (IsChip /\ Straddles /\ PolygonsOnly(last.window)
        /\ PolygonsOnly(ClipBox(last.window, extent)))
        => \A px \in Pixels : AsClippedWindow(px)

\* A chip of a straddling window with a polygon painted inside the extent and
\* a polygon or a background other than zero outside it.
C3_Witness ==
    /\ IsChip /\ Straddles /\ PolygonsOnly(last.window)
    /\ PolygonsOnly(ClipBox(last.window, extent))
    /\ \E px \in Pixels : PixelIn(extent, WorldPixel(last.window, px)) /\ Value(px) \in {1, 2}
    /\ \E px \in Pixels : \E i \in DOMAIN Items :
          /\ ~PixelIn(extent, WorldPixel(last.window, px))
          /\ PolygonCovers(Items[i], WorldPixel(last.window, px))
    /\ rasterizer_options.background_class_id # 0

\* The index geometry g truly meets the window w.
Meets(g, w) == g.valid /\ ~is_empty(Intersection(g, to_shapely(w)))

\* The index geometries whose burn-in shape paints pixel px of the last chip.
Painters(px) ==
    {i \in DOMAIN Items :
        Paints(Items[i], last.window, rasterizer_options.line_buffer,
               WorldPixel(last.window, px))}

\* C4: in the chip of a window inside the extent, a pixel no shape paints
\* holds background_class_id and a pixel that one polygon alone covers holds
\* that polygon's class id; the chip is the background throughout when no
\* geometry meets the window.
C4_InsideExtent ==
    (IsChip /\ Inside(last.window, extent)) =>
        /\ (\A i \in DOMAIN Items : ~Meets(Items[i], last.window))
              => \A px \in Pixels : Value(px) = rasterizer_options.background_class_id
        /\ \A px \in Pixels :
              /\ Painters(px) = {} => Value(px) = rasterizer_options.background_class_id
              /\ \A i \in DOMAIN Items :
                    (Painters(px) = {i} /\ PolygonCovers(Items[i], WorldPixel(last.window, px)))
                        => Value(px) = Items[i].class_id

\* A chip of a window inside the extent that one polygon covers whole, a
\* second geometry being a candidate by its bounding box only.
C4_Witness ==
    /\ IsChip /\ Inside(last.window, extent)
    /\ \E i \in DOMAIN Items :
          /\ BoundsMeet(Bounds(Items[i]), Bounds(to_shapely(last.window)))
          /\ ~Meets(Items[i], last.window)
    /\ \E j \in DOMAIN Items : \A px \in Pixels :
          /\ PolygonCovers(Items[j], WorldPixel(last.window, px))
          /\ Value(px) = Items[j].class_id
          /\ Value(px) # rasterizer_options.background_class_id

\* C5, as claimed: every chip has the element type get_dtype reports,
\* unsigned 8-bit, with values in 0..255.
C5_AsClaimed ==
    IsChip => (last.dtype = get_dtype /\ \A px \in Pixels : Value(px) \in 0..255)

\* C6: where two polygons of different class ids cover a pixel inside the
\* extent and no other shape paints it, the pixel holds the class id of the
\* polygon the index yields later.
C6_LaterWins ==
    IsChip => \A px \in Pixels : \A i, j \in DOMAIN Items :
        (/\ i < j
         /\ PixelIn(extent, WorldPixel(last.window, px))
         /\ PolygonCovers(Items[i], WorldPixel(last.window, px))
         /\ PolygonCovers(Items[j], WorldPixel(last.window, px))
         /\ Items[i].class_id # Items[j].class_id
         /\ Painters(px) \subseteq {i, j})
            => Value(px) = Items[j].class_id

\* A chip with a pixel inside the extent that two polygons of different
\* class ids cover.
C6_Witness ==
    /\ IsChip
    /\ \E px \in Pixels : \E i, j \in DOMAIN Items :
          /\ i < j
          /\ PixelIn(extent, WorldPixel(last.window, px))
          /\ PolygonCovers(Items[i], WorldPixel(last.window, px))
          /\ PolygonCovers(Items[j], WorldPixel(last.window, px))
          /\ Items[i].class_id # Items[j].class_id
          /\ Items[i].class_id = 2

\* What get_chip(w) returns in the current state.
ChipNow(w) == ChipResult(activated, str_tree, rasterizer_options, w, extent)

\* C7: a get_chip call leaves the index, the flag, the extent and the options
\* as they were, and in every state that follows a get_chip call, the first
\* or one of many in a row, the same call made again returns what that call
\* returned.
C7_Idempotent ==
    /\ [][last'.op = "get_chip" => source' = source]_vars
    /\ [](last.op = "get_chip" => ChipNow(last.window) = last)

\* A chip returned after the chip of another window, of the same size, that
\* holds other values.
C7_Witness ==
    /\ IsChip
    /\ \E w \in Windows :
          /\ w # last.window
          /\ get_height(w) = get_height(last.window)
          /\ ChipNow(w).kind = "chip"
          /\ ChipNow(w).data # last.data

\* C8, as claimed: when the clipping of a candidate geometry fails, get_chip
\* still returns a grid: the one burned from the other candidates.
C8_AsClaimed ==
    (last.op = "get_chip" /\ activated /\ BadCandidate(last.window)) =>
        /\ last.kind = "chip"
        /\ last.data = ChipResult(TRUE, STRtree(SelectSeq(Items, LAMBDA g : g.valid)),
                                  rasterizer_options, last.window, extent).data

\* C8, amended: when the clipping of a candidate geometry fails, the error
\* leaves get_chip, which returns no grid.
C8_ClipErrorPropagates ==
    (last.op = "get_chip" /\ activated /\ BadCandidate(last.window)) =>
        (last.kind = "TopologicalError" /\ last.data = NoData)

\* A get_chip call whose window has a candidate that cannot be clipped and
\* another that can.
C8_Witness ==
    /\ last.op = "get_chip" /\ activated /\ BadCandidate(last.window)
    /\ \E i \in DOMAIN Items : Meets(Items[i], last.window)

\* C9, as claimed: every candidate whose part inside the window is a line, in
\* one piece or in several, is handed to burn-in as the buffer of that part;
\* polygons and points are handed over as they are.
C9_AsClaimed ==
    IsChip =>
        LET cropped == NonEmpty(Cropped(Items, last.window))
            handed  == WindowShapes(Items, rasterizer_options, last.window)
        IN  \A i \in DOMAIN cropped :
                handed[i].s =
                    transform(last.window,
                              IF cropped[i].s.type \in {"LineString", "MultiLineString"}
                              THEN buffer(cropped[i].s, rasterizer_options.line_buffer)
                              ELSE cropped[i].s)

(***************************************************************************)
(* The claim about the statements of _activate, _deactivate and _get_chip   *)
(* running interleaved.                                                     *)
(***************************************************************************)
\* C10, as claimed: at every point of execution, activated implies that
\* str_tree holds a built index, and no get_chip call that passed the
\* activation check reads a missing index.
C10_AsClaimed ==
    /\ activated => str_tree.state = "STRtree"
    /\ last.kind # "AttributeError"

\* C10, amended: activated implies that str_tree holds a built index at every
\* point of execution but two: while a _deactivate stands between its two
\* assignments, and after a _deactivate has released the index between the
\* two assignments of an _activate, until an _activate builds the index
\* again.  But for the second case, a get_chip call that passed the
\* activation check reads a missing index only when a _deactivate stood
\* between its assignments at the check or released the index after it.
C10_IndexWhenActivated ==
    /\ []((activated /\ dpc = 0 /\ ~raced) => str_tree.state = "STRtree")
    /\ [][(rpc = "checked" /\ rpc' = "idle" /\ ~overlap /\ ~raced)
              => last'.kind # "AttributeError"]_vars

\* An _activate has built the index and not yet set the flag, no _deactivate
\* having released the index under an _activate, while a get_chip call has
\* passed the check of an earlier activation that a _deactivate has since
\* ended.
C10_Witness ==
    /\ apc > 0 /\ dpc = 0 /\ str_tree.state = "STRtree" /\ ~activated /\ ~raced
    /\ rpc = "checked" /\ overlap

\* At rest, the flag is set over a released index: a _deactivate ran between
\* the two assignments of an _activate.
C10_RacedAtRest ==
    ~(apc = 0 /\ dpc = 0 /\ activated /\ str_tree = NoneTree)

=============================================================================
